---- MODULE Spec2Model ----
(***************************************************************************)
(* A model of simple_fs.c, a read-only Linux file system with a fixed      *)
(* catalog of three entries.  The state is the inode cache of one mount,   *)
(* the super block, the directory context of an open directory, the        *)
(* threads that are inside simplefs_fill_super / simplefs_lookup, and the   *)
(* record of the call that returned last.                                  *)
(*                                                                         *)
(* C strings are sequences of character codes ending with NUL (0).         *)
(* Pointers are integers: NULL is 0, ERR_PTR(-e) is -e, and an inode       *)
(* pointer is the index (1, 2, ...) of the inode in the inode cache.       *)
(***************************************************************************)
EXTENDS Integers, Sequences, FiniteSets, TLC

---------------------------------------------------------------------------
\* Bounds of the model.

\* Number of kernel threads that may be inside a mount or a lookup at once.
NumThreads == 2
\* Largest number of entries the dir_emit sink takes in one readdir call.
MaxRoom == 3
\* Page indexes are drawn up to this far beyond the file size.
MaxBeyond == 1
\* Bytes of the modelled page (the kernel's PAGE_SIZE, scaled down).
PageSize == 16

Threads == 1..NumThreads

---------------------------------------------------------------------------
\* The catalog (Entries[], lines 23-27).

NULL == 0
NUL == 0

S_dot == <<46, 0>>
S_dotdot == <<46, 46, 0>>
S_message_txt == <<109, 101, 115, 115, 97, 103, 101, 46, 116, 120, 116, 0>>
S_empty == <<0>>
S_Hello_World == <<72, 101, 108, 108, 111, 32, 87, 111, 114, 108, 100, 33, 0>>

\* Names that are not in the catalog: "does-not-exist", and "message.tx", a
\* proper prefix of a catalog name.
S_does_not_exist ==
    <<100, 111, 101, 115, 45, 110, 111, 116, 45, 101, 120, 105, 115, 116, 0>>
S_message_tx == <<109, 101, 115, 115, 97, 103, 101, 46, 116, 120, 0>>

\* A catalog whose regular file has an identity the resolver does not know.
Entries_unknown_ino ==
    << [name |-> S_dot,         ino |-> 1, type |-> "DT_DIR", content |-> S_empty],
       [name |-> S_dotdot,      ino |-> 1, type |-> "DT_DIR", content |-> S_empty],
       [name |-> S_message_txt, ino |-> 3, type |-> "DT_REG", content |-> S_Hello_World] >>

\* Entries[i] of the C array is Entries[i + 1] here.
Entries ==
    << [name |-> S_dot,         ino |-> 1, type |-> "DT_DIR", content |-> S_empty],
       [name |-> S_dotdot,      ino |-> 1, type |-> "DT_DIR", content |-> S_empty],
       [name |-> S_message_txt, ino |-> 2, type |-> "DT_REG", content |-> S_Hello_World] >>

\* The loop bound of simplefs_lookup and simplefs_readdir.
NEntries == 3

ENOMEM == 12

\* The names a lookup is called with.
LookupNames ==
    {S_dot, S_dotdot, S_message_txt, S_does_not_exist, S_message_tx}

---------------------------------------------------------------------------
\* libc-style helpers the code calls.

RECURSIVE strlenFrom(_, _)
strlenFrom(s, k) == IF s[k] = NUL THEN k - 1 ELSE strlenFrom(s, k + 1)

\* strlen: the number of bytes before the first NUL.
strlen(s) == strlenFrom(s, 1)

RECURSIVE strcmpFrom(_, _, _)
strcmpFrom(a, b, k) ==
    IF a[k] # b[k] THEN a[k] - b[k]
    ELSE IF a[k] = NUL THEN 0
    ELSE strcmpFrom(a, b, k + 1)

\* A comparison that stops where b ends, as strncmp(a, b, strlen(b)) does.
RECURSIVE strcmpPrefixFrom(_, _, _)
strcmpPrefixFrom(a, b, k) ==
    IF b[k] = NUL THEN 0
    ELSE IF a[k] # b[k] THEN a[k] - b[k]
    ELSE strcmpPrefixFrom(a, b, k + 1)

strcmp_prefix(a, b) == strcmpPrefixFrom(a, b, 1)

\* strcmp: 0 iff the two strings are byte for byte equal up to their NUL.
strcmp(a, b) == strcmpFrom(a, b, 1)

ERR_PTR(e) == e
IS_ERR(p) == p < 0

---------------------------------------------------------------------------
\* State.

VARIABLES
    inodes,   \* the inode cache of the mount: a sequence of struct inode
    sb,       \* the super block: its s_root and the progress of the mount
    th,       \* per thread: where it is inside fill_super / lookup
    dir,      \* the open directory: dir_context.pos, and the scan so far
    last      \* the call that returned last, with its arguments and results

vars == <<inodes, sb, th, dir, last>>

\* n counts the calls of simplefs_iget the current call has made, and failed
\* tells whether iget_locked could not allocate in one of them.
Idle ==
    [pc |-> "idle", op |-> "none", name |-> S_empty, i |-> 0, ino |-> 0,
     inode |-> NULL, res |-> NULL, n |-> 0, failed |-> FALSE]

\* Idle threads hold no state, so which of them makes the next call does not
\* matter: it is the one with the least number.
Caller(t) ==
    /\ th[t].pc = "idle"
    /\ \A u \in Threads : th[u].pc = "idle" => t <= u

Init ==
    /\ inodes = << >>
    /\ sb = [state |-> "unmounted", s_root |-> NULL]
    /\ th = [t \in Threads |-> Idle]
    /\ dir = [pos |-> 0, start |-> 0, log |-> << >>, fair |-> TRUE]
    /\ last = [op |-> "none"]

---------------------------------------------------------------------------
\* The host's inode cache (iget_locked, called at line 94).

\* What alloc_inode hands out, hashed under ino with I_NEW set.
new_inode(ino) ==
    [i_ino |-> ino, i_state |-> {"I_NEW"}, i_mode |-> [fmt |-> "none", perm |-> <<0, 0, 0>>],
     i_fop |-> "no_open_fops", i_op |-> "empty_iops", a_ops |-> "empty_aops",
     i_size |-> 0, i_blocks |-> 0, i_private |-> NULL, nfill |-> 0]

\* The cached inode hashed under ino, or NULL.
find_inode_fast(ino) ==
    IF \E r \in 1..Len(inodes) : inodes[r].i_ino = ino
    THEN CHOOSE r \in 1..Len(inodes) :
             /\ inodes[r].i_ino = ino
             /\ \A q \in 1..(r - 1) : inodes[q].i_ino # ino
    ELSE NULL

\* wait_on_inode: a cached inode is handed out only once I_NEW is cleared.
wait_on_inode_over(r) == "I_NEW" \notin inodes[r].i_state

---------------------------------------------------------------------------
\* simplefs_iget (lines 89-134).

\* A selection that takes the entry before the regular file for identity 2.
iget_entry_off_by_one(ino) ==
    LET e1 == IF ino = 1 THEN {1} ELSE 1..NEntries
    IN  IF ino = 2 THEN {2} ELSE e1

\* Lines 104-107: the entry an identity is populated from.  For any other
\* identity e is read uninitialised: any entry may be what it points at.
iget_entry(ino) ==
    LET e1 == IF ino = 1 THEN {1} ELSE 1..NEntries
    IN  IF ino = 2 THEN {3} ELSE e1

\* A population that has no branch for directories.
iget_fields_regular_only(inode, ino, e) ==
    IF Entries[e].type = "DT_REG"
    THEN [inode EXCEPT !.i_mode = [fmt |-> "S_IFREG", perm |-> <<4, 4, 4>>],
                       !.i_fop = "generic_ro_fops",
                       !.i_size = strlen(Entries[e].content),
                       !.i_blocks = 1,
                       !.i_ino = ino,
                       !.i_private = e,
                       !.a_ops = "reg_aops"]
    ELSE inode

\* A population that takes the size of the content with its NUL, as sizeof
\* of the literal would.
iget_fields_size_with_nul(inode, ino, e) ==
    LET d == IF Entries[e].type = "DT_DIR"
             THEN [inode EXCEPT !.i_mode = [fmt |-> "S_IFDIR", perm |-> <<5, 5, 5>>],
                                !.i_fop = "dir_fops",
                                !.i_op = "dir_iops",
                                !.i_size = 512,
                                !.i_ino = ino]
             ELSE inode
    IN  IF Entries[e].type = "DT_REG"
        THEN [d EXCEPT !.i_mode = [fmt |-> "S_IFREG", perm |-> <<4, 4, 4>>],
                       !.i_fop = "generic_ro_fops",
                       !.i_size = Len(Entries[e].content),
                       !.i_blocks = 1,
                       !.i_ino = ino,
                       !.i_private = e,
                       !.a_ops = "reg_aops"]
        ELSE d

\* Lines 113-130: the fields set from entry e (an index into Entries).
iget_fields(inode, ino, e) ==
    LET d == IF Entries[e].type = "DT_DIR"
             THEN [inode EXCEPT !.i_mode = [fmt |-> "S_IFDIR", perm |-> <<5, 5, 5>>],
                                !.i_fop = "dir_fops",
                                !.i_op = "dir_iops",
                                !.i_size = 512,
                                !.i_ino = ino]
             ELSE inode
    IN  IF Entries[e].type = "DT_REG"
        THEN [d EXCEPT !.i_mode = [fmt |-> "S_IFREG", perm |-> <<4, 4, 4>>],
                       !.i_fop = "generic_ro_fops",
                       !.i_size = strlen(Entries[e].content),
                       !.i_blocks = 1,
                       !.i_ino = ino,
                       !.i_private = e,
                       !.a_ops = "reg_aops"]
        ELSE d

\* Lines 94-98: iget_locked, then the two early returns.  A cached inode is
\* returned as it is once wait_on_inode lets the caller through; a failed
\* allocation returns ERR_PTR(-ENOMEM); a new inode goes on to be populated.
simplefs_iget(t) ==
    /\ th[t].pc = "iget_locked"
    /\ LET old == find_inode_fast(th[t].ino)
       IN  /\ old # NULL => wait_on_inode_over(old)
           /\ \E allocOk \in BOOLEAN :
                IF old # NULL
                THEN /\ inodes' = inodes
                     /\ th' = [th EXCEPT ![t].pc = "iget_ret", ![t].res = old]
                ELSE IF allocOk
                THEN /\ inodes' = Append(inodes, new_inode(th[t].ino))
                     /\ th' = [th EXCEPT ![t].pc = "iget_fill", ![t].res = Len(inodes) + 1]
                ELSE /\ inodes' = inodes
                     /\ th' = [th EXCEPT ![t].pc = "iget_ret",
                                          ![t].res = ERR_PTR(-ENOMEM),
                                          ![t].failed = TRUE]
    /\ UNCHANGED <<sb, dir, last>>

\* Lines 104-132: populate the new inode and return it.  I_NEW stays set:
\* the function returns without unlock_new_inode.
simplefs_iget_new(t) ==
    /\ th[t].pc = "iget_fill"
    /\ \E e \in iget_entry(th[t].ino) :
         LET r == th[t].res
             f == iget_fields(inodes[r], th[t].ino, e)
         IN  inodes' = [inodes EXCEPT ![r] = [f EXCEPT !.nfill = @ + 1]]
    /\ th' = [th EXCEPT ![t].pc = "iget_ret"]
    /\ UNCHANGED <<sb, dir, last>>

---------------------------------------------------------------------------
\* Mount: simple_mount -> mount_nodev -> simplefs_fill_super (lines 146-160).

\* Line 150: fill_super calls simplefs_iget(sb, 1).
simplefs_fill_super(t) ==
    /\ Caller(t)
    /\ sb.state = "unmounted"
    /\ sb' = [sb EXCEPT !.state = "mounting"]
    /\ th' = [th EXCEPT ![t] = [Idle EXCEPT !.pc = "iget_locked",
                                            !.op = "fill_super",
                                            !.ino = 1,
                                            !.n = 1]]
    /\ UNCHANGED <<inodes, dir, last>>

\* d_make_root(inode), line 151.  s_root is modelled by the inode pointer of
\* the root dentry, NULL when there is no dentry.  Given a valid inode the
\* dentry is allocated (ok) or not.  Given ERR_PTR(-ENOMEM) d_make_root
\* tests it against NULL only and loads root_inode->i_sb through it.  Error
\* pointers are addresses the kernel never maps (that is what makes them
\* distinguishable from objects), so the load faults and the thread dies in
\* the kernel ("oops"): no other outcome exists.
d_make_root_outcomes(inode) ==
    IF IS_ERR(inode) THEN {"oops"} ELSE {"null", "dentry"}

\* Lines 151-154: install the root, -ENOMEM when there is none.
simplefs_fill_super_ret(t) ==
    /\ th[t].pc = "iget_ret"
    /\ th[t].op = "fill_super"
    /\ \E out \in d_make_root_outcomes(th[t].res) :
         IF out = "oops"
         THEN /\ th' = [th EXCEPT ![t].pc = "oops"]
              /\ UNCHANGED <<sb, last>>
         ELSE LET root == IF out = "dentry" THEN th[t].res ELSE NULL
                  ret == IF root = NULL THEN -ENOMEM ELSE 0
              IN  /\ sb' = [state |-> IF ret = 0 THEN "mounted" ELSE "failed",
                            s_root |-> root]
                  /\ last' = [op |-> "fill_super", ret |-> ret, inode |-> th[t].res]
                  /\ th' = [th EXCEPT ![t] = Idle]
    /\ UNCHANGED <<inodes, dir>>

\* The mount has a root dentry with a real inode behind it.
HasRoot == sb.state = "mounted" /\ sb.s_root > 0

---------------------------------------------------------------------------
\* simplefs_lookup (lines 163-175).

\* Lines 169-170: the first i >= from with strcmp(Entries[i].name, name) = 0,
\* or NEntries when the loop runs out.
RECURSIVE lookup_next(_, _)
lookup_next(name, i) ==
    IF i < NEntries /\ strcmp(Entries[i + 1].name, name) # 0
    THEN lookup_next(name, i + 1)
    ELSE i

\* A splice that turns an error pointer into a negative dentry.
d_splice_alias_error_as_no_entry(inode) ==
    IF IS_ERR(inode) \/ inode = NULL THEN [ret |-> NULL, d_inode |-> NULL]
    ELSE IF inodes[inode].i_mode.fmt = "S_IFDIR" /\ sb.s_root = inode
    THEN [ret |-> ERR_PTR(-40), d_inode |-> NULL]
    ELSE [ret |-> NULL, d_inode |-> inode]

\* d_splice_alias(inode, dentry), line 174: an error pointer is passed on; a
\* NULL inode makes the dentry negative and NULL is returned; a directory
\* inode that already has the root dentry as alias is refused (-ELOOP, 40);
\* any other inode is attached to the dentry and NULL is returned.
d_splice_alias(inode) ==
    IF IS_ERR(inode) THEN [ret |-> inode, d_inode |-> NULL]
    ELSE IF inode = NULL THEN [ret |-> NULL, d_inode |-> NULL]
    ELSE IF inodes[inode].i_mode.fmt = "S_IFDIR" /\ sb.s_root = inode
    THEN [ret |-> ERR_PTR(-40), d_inode |-> NULL]
    ELSE [ret |-> NULL, d_inode |-> inode]

\* The loop of lines 169-173 from index `from` on, with `inode` as it stands:
\* either it reaches a matching entry and calls simplefs_iget for its
\* identity, or it runs out and the function returns through line 174.
lookup_loop(t, name, from, inode) ==
    LET i == lookup_next(name, from)
    IN  IF i < NEntries
        THEN /\ th' = [th EXCEPT ![t] = [pc |-> "iget_locked", op |-> "lookup",
                                         name |-> name, i |-> i,
                                         ino |-> Entries[i + 1].ino,
                                         inode |-> inode, res |-> NULL,
                                         n |-> th[t].n + 1,
                                         failed |-> th[t].failed]]
             /\ last' = last
        ELSE /\ th' = [th EXCEPT ![t] = Idle]
             /\ last' = [op |-> "lookup", name |-> name, inode |-> inode,
                         igets |-> th[t].n, failed |-> th[t].failed]
                            @@ d_splice_alias(inode)

\* A call of lookup on the root directory, up to its first simplefs_iget.
simplefs_lookup(t, name) ==
    /\ Caller(t)
    /\ HasRoot
    /\ inodes[sb.s_root].i_op = "dir_iops"
    /\ lookup_loop(t, name, 0, NULL)
    /\ UNCHANGED <<inodes, sb, dir>>

\* Line 171: simplefs_iget has returned; the loop goes on with the next i.
simplefs_lookup_ret(t) ==
    /\ th[t].pc = "iget_ret"
    /\ th[t].op = "lookup"
    /\ lookup_loop(t, th[t].name, th[t].i + 1, th[t].res)
    /\ UNCHANGED <<inodes, sb, dir>>

---------------------------------------------------------------------------
\* simplefs_readdir (lines 181-194).

\* The host opens the root directory, or seeks in it: the cursor starts at p
\* and a new scan begins.
dir_open(p) ==
    /\ HasRoot
    /\ dir' = [pos |-> p, start |-> p, log |-> << >>, fair |-> TRUE]
    /\ UNCHANGED <<inodes, sb, th, last>>

\* An emission that passes the loop index where the identity belongs.
dir_entry_index_as_ino(i) ==
    [idx |-> i, name |-> Entries[i + 1].name, namelen |-> strlen(Entries[i + 1].name),
     ino |-> i, type |-> Entries[i + 1].type]

\* What dir_emit is handed for Entries[i] (line 189).
dir_entry(i) ==
    [idx |-> i, name |-> Entries[i + 1].name, namelen |-> strlen(Entries[i + 1].name),
     ino |-> Entries[i + 1].ino, type |-> Entries[i + 1].type]

\* A loop that counts an entry and moves the cursor only once the sink has
\* taken the entry.
RECURSIVE readdir_loop_count_after(_, _)
readdir_loop_count_after(i, s) ==
    IF i < NEntries
    THEN IF s.room > 0
         THEN readdir_loop_count_after(i + 1, [s EXCEPT !.amount = @ + 1,
                                                       !.pos = @ + 1,
                                                       !.room = @ - 1,
                                                       !.emitted = Append(@, dir_entry(i))])
         ELSE [s EXCEPT !.refused = i]
    ELSE s

\* A loop that starts at the first entry instead of at the cursor.
RECURSIVE readdir_loop_rec(_, _)
readdir_loop_rec(i, s) ==
    IF i < NEntries
    THEN LET s1 == [s EXCEPT !.amount = @ + 1, !.pos = @ + 1]
         IN  IF s.room > 0
             THEN readdir_loop_rec(i + 1, [s1 EXCEPT !.room = @ - 1,
                                                     !.emitted = Append(@, dir_entry(i))])
             ELSE [s1 EXCEPT !.refused = i]
    ELSE s

readdir_loop_from_zero(i, s) == IF i < NEntries THEN readdir_loop_rec(0, s) ELSE s

\* The loop of lines 186-191 from index i on.  s holds cxt->pos, amount, the
\* room left in the sink, the entries the sink took and the index it refused
\* (-1: none).  dir_emit takes an entry while the sink has room.
RECURSIVE readdir_loop(_, _)
readdir_loop(i, s) ==
    IF i < NEntries
    THEN LET s1 == [s EXCEPT !.amount = @ + 1, !.pos = @ + 1]
         IN  IF s.room > 0
             THEN readdir_loop(i + 1, [s1 EXCEPT !.room = @ - 1,
                                                 !.emitted = Append(@, dir_entry(i))])
             ELSE [s1 EXCEPT !.refused = i]
    ELSE s

\* One call of readdir on the open root directory, with a sink that has room
\* for `room` entries in this call.
simplefs_readdir(room) ==
    /\ HasRoot
    /\ inodes[sb.s_root].i_fop = "dir_fops"
    /\ LET r == readdir_loop(dir.pos, [pos |-> dir.pos, amount |-> 0, room |-> room,
                                       emitted |-> << >>, refused |-> -1])
       IN  /\ dir' = [dir EXCEPT !.pos = r.pos,
                                 !.log = @ \o r.emitted,
                                 !.fair = @ /\ room >= 1]
           /\ last' = [op |-> "readdir", pos0 |-> dir.pos, room |-> room,
                       ret |-> r.amount, emitted |-> r.emitted,
                       refused |-> r.refused, pos |-> r.pos]
    /\ UNCHANGED <<inodes, sb, th>>

---------------------------------------------------------------------------
\* simplefs_read_folio / simplefs_readpage (lines 198-240).

\* The size of the one regular file.
FileSize == strlen(Entries[3].content)

\* The page indexes a read is called with: the first page, and the indexes
\* from the file size on.
PageIndexes == {0} \cup {FileSize + d : d \in 0..MaxBeyond}

\* What the page held before the read.
PriorBufs == {[k \in 1..PageSize |-> 0], [k \in 1..PageSize |-> 200 + k]}

\* memcpy(dst, src, n) into the start of dst.
memcpy(dst, src, n) == [k \in 1..Len(dst) |-> IF k <= n THEN src[k] ELSE dst[k]]

\* A range test that also skips the page whose index equals the size.
read_copy_skip_at_size(inode, page) ==
    IF page.index >= inode.i_size
    THEN page
    ELSE [page EXCEPT !.buf = memcpy(@, Entries[inode.i_private].content, inode.i_size)]

\* Lines 205-212 (227-233): the range test and the copy.
read_copy(inode, page) ==
    IF page.index > inode.i_size
    THEN page
    ELSE [page EXCEPT !.buf = memcpy(@, Entries[inode.i_private].content, inode.i_size)]

\* An out-of-range read that returns at once instead of going to out.
read_out_in_range_only(page) ==
    IF page.index > inodes[page.host].i_size
    THEN page
    ELSE [page EXCEPT !.uptodate = TRUE, !.locked = FALSE]

\* Lines 215-217 (236-238): the out label.
read_out(page) == [page EXCEPT !.uptodate = TRUE, !.locked = FALSE]

\* The locked, not yet valid page the host hands to the read operation.
locked_page(host, idx, prior) ==
    [host |-> host, index |-> idx, locked |-> TRUE, uptodate |-> FALSE, buf |-> prior]

\* The inodes whose pages are read through reg_aops.
RegInodes == {r \in 1..Len(inodes) : inodes[r].a_ops = "reg_aops"}

\* Kernels from 5.15 on.
simplefs_read_folio(idx, prior) ==
    /\ \E host \in RegInodes :
         LET folio == locked_page(host, idx, prior)
         IN  last' = [op |-> "read_folio", before |-> folio,
                      page |-> read_out(read_copy(inodes[host], folio)), ret |-> 0]
    /\ UNCHANGED <<inodes, sb, th, dir>>

\* Kernels before 5.15.
simplefs_readpage(idx, prior) ==
    /\ \E host \in RegInodes :
         LET page == locked_page(host, idx, prior)
         IN  last' = [op |-> "readpage", before |-> page,
                      page |-> read_out(read_copy(inodes[host], page)), ret |-> 0]
    /\ UNCHANGED <<inodes, sb, th, dir>>

---------------------------------------------------------------------------
\* The system.

Next ==
    \/ \E t \in Threads : simplefs_fill_super(t)
    \/ \E t \in Threads : simplefs_fill_super_ret(t)
    \/ \E t \in Threads : simplefs_iget(t)
    \/ \E t \in Threads : simplefs_iget_new(t)
    \/ \E t \in Threads : \E name \in LookupNames : simplefs_lookup(t, name)
    \/ \E t \in Threads : simplefs_lookup_ret(t)
    \/ \E p \in 0..NEntries : dir_open(p)
    \/ \E room \in 0..MaxRoom : simplefs_readdir(room)
    \/ \E idx \in PageIndexes : \E prior \in PriorBufs : simplefs_read_folio(idx, prior)
    \/ \E idx \in PageIndexes : \E prior \in PriorBufs : simplefs_readpage(idx, prior)

Spec == Init /\ [][Next]_vars

\* The steps a thread takes once it is inside a call.  The kernel schedules
\* every runnable thread, so a step that stays possible is taken.
Step(t) ==
    \/ simplefs_iget(t)
    \/ simplefs_iget_new(t)
    \/ simplefs_fill_super_ret(t)
    \/ simplefs_lookup_ret(t)

FairSpec == Spec /\ \A t \in Threads : WF_vars(Step(t))

---------------------------------------------------------------------------
\* Properties.

IsRead == last.op \in {"read_folio", "readpage"}
IsReaddir == last.op = "readdir"
IsLookup == last.op = "lookup"

CatalogNames == {S_dot, S_dotdot, S_message_txt}

\* The indexes of the entries the sink has taken in the scan so far.
LogIdx == [k \in 1..Len(dir.log) |-> dir.log[k].idx]

\* C1: every read call, in range or not, is made on a locked page and leaves
\* it marked up to date and unlocked, and returns 0.
C1_ReadLeavesPageReady ==
    IsRead => /\ last.before.locked
              /\ last.page.uptodate
              /\ ~last.page.locked
              /\ last.ret = 0

\* A read of a page index beyond the file size has returned, and so has left
\* its page ready.
C1_Witness ==
    /\ IsRead
    /\ last.before.index > FileSize
    /\ ~last.before.uptodate
    /\ last.page.uptodate

\* C2: a scan from cursor 0 that has run until a call returned 0, with a sink
\* that takes at least the first entry it is offered in every call, has
\* handed every catalog entry to the sink exactly once.
C2_ScanListsEachOnce ==
    (IsReaddir /\ last.ret = 0 /\ dir.start = 0 /\ dir.fair)
        => LogIdx = <<0, 1, 2>>

\* C3: a readdir call moves the cursor forward by the number of entries the
\* sink took in it, and a call the sink stopped at index k leaves it at k.
C3_CursorCountsAccepted ==
    IsReaddir => /\ last.pos - last.pos0 = Len(last.emitted)
                 /\ last.pos >= last.pos0
                 /\ last.refused # -1 => last.pos = last.refused

\* C4: a readdir call returns the number of entries the sink took in it.
C4_ReturnCountsAccepted ==
    IsReaddir => last.ret = Len(last.emitted)

\* C5: readdir returns 0 only when the cursor it is called with is at or
\* past the end of the catalog; a call with the cursor in 0..2 never returns
\* 0 with the cursor left where it was before the end.
C5_ZeroOnlyAtEnd ==
    IsReaddir =>
        /\ last.ret = 0 => last.pos0 >= NEntries
        /\ last.pos0 < NEntries =>
               ~(last.ret = 0 /\ last.pos = last.pos0 /\ last.pos < NEntries)

\* A call with the cursor inside the catalog whose sink refused the first
\* entry offered has returned.
C5_Witness ==
    /\ IsReaddir
    /\ last.pos0 < NEntries
    /\ last.room = 0
    /\ last.refused = last.pos0

\* C6: with a sink that never refuses, a call from cursor 0 emits ".", "..",
\* "message.txt" with their identities and kinds, in this order, and leaves
\* the cursor at 3; the call after a scan from 0 that took all three finds
\* the cursor at 3, emits nothing, returns 0 and leaves the cursor at 3.
C6_FullListing ==
    /\ (IsReaddir /\ last.pos0 = 0 /\ last.room >= NEntries) =>
           /\ last.emitted =
                  << [idx |-> 0, name |-> <<46, 0>>, namelen |-> 1,
                      ino |-> 1, type |-> "DT_DIR"],
                     [idx |-> 1, name |-> <<46, 46, 0>>, namelen |-> 2,
                      ino |-> 1, type |-> "DT_DIR"],
                     [idx |-> 2,
                      name |-> <<109, 101, 115, 115, 97, 103, 101, 46, 116, 120, 116, 0>>,
                      namelen |-> 11, ino |-> 2, type |-> "DT_REG"] >>
           /\ last.pos = 3
    /\ (IsReaddir /\ dir.start = 0 /\ LogIdx = <<0, 1, 2>> /\ last.pos0 = 3) =>
           /\ last.emitted = << >>
           /\ last.ret = 0
           /\ last.pos = 3
           /\ dir.pos = 3

\* A sink that never refuses has taken the whole catalog in one call from
\* cursor 0, and the call that followed has returned.
C6_Witness ==
    /\ IsReaddir
    /\ dir.start = 0
    /\ dir.fair
    /\ Len(dir.log) = NEntries
    /\ last.pos0 = NEntries
    /\ last.room >= NEntries

\* The cached inode a thread's resolve would find.
Cached(t) == find_inode_fast(th[t].ino)

\* A thread is inside simplefs_iget.
Resolving(t) == th[t].pc \in {"iget_locked", "iget_fill"}

\* A thread is inside simplefs_iget for an identity whose object an earlier
\* resolve has populated and returned.
ResolvingAgain(t) ==
    /\ th[t].pc = "iget_locked"
    /\ Cached(t) # NULL
    /\ inodes[Cached(t)].nfill > 0
    /\ \A u \in Threads : ~(th[u].pc = "iget_fill" /\ th[u].res = Cached(t))

\* C7: every resolve that starts returns to its caller.
C7_ResolveReturns ==
    \A t \in Threads : Resolving(t) ~> (th[t].pc = "iget_ret")

\* C8: a second resolve of an identity returns the object the first one
\* returned, populated once.
C8_SecondResolveSameObject ==
    \A t \in Threads :
        ResolvingAgain(t) ~> /\ th[t].pc = "iget_ret"
                             /\ th[t].res = Cached(t)
                             /\ inodes[th[t].res].nfill = 1

IsMessageInode(r) ==
    /\ r > 0
    /\ inodes[r].i_ino = 2
    /\ inodes[r].i_mode.fmt = "S_IFREG"
    /\ inodes[r].i_size = 12
    /\ inodes[r].i_private # NULL
    /\ Entries[inodes[r].i_private].content =
           <<72, 101, 108, 108, 111, 32, 87, 111, 114, 108, 100, 33, 0>>

\* C10: a lookup of "message.txt" made when identity 2 is already
\* materialized returns that object: identity 2, regular, size 12, content
\* pointer at "Hello World!".
C10_LookupMessageWhenCached ==
    \A t \in Threads :
        (ResolvingAgain(t) /\ th[t].op = "lookup" /\ th[t].name = S_message_txt)
            ~> /\ IsLookup
               /\ last.name = S_message_txt
               /\ last.ret = NULL
               /\ IsMessageInode(last.d_inode)

\* C11: when iget_locked cannot allocate the root inode, fill_super does not
\* die on the way: it returns -ENOMEM and leaves the super block without a
\* root.
C11_MountReportsENOMEM ==
    /\ \A t \in Threads : ~(th[t].op = "fill_super" /\ th[t].pc = "oops")
    /\ (last.op = "fill_super" /\ IS_ERR(last.inode)) =>
           /\ last.ret = -ENOMEM
           /\ sb.s_root = NULL
           /\ sb.state = "failed"

\* C12: once the mount has succeeded, the root is the cached object of
\* identity 1, a directory with the directory operations attached.
C12_RootIsDirectory ==
    sb.state = "mounted" =>
        /\ sb.s_root > 0
        /\ sb.s_root = find_inode_fast(1)
        /\ inodes[sb.s_root].i_ino = 1
        /\ inodes[sb.s_root].i_mode.fmt = "S_IFDIR"
        /\ inodes[sb.s_root].i_op = "dir_iops"
        /\ inodes[sb.s_root].i_fop = "dir_fops"

\* fill_super has just returned 0 with a root installed.
C12_Witness ==
    /\ sb.state = "mounted"
    /\ last.op = "fill_super"
    /\ last.ret = 0
    /\ sb.s_root = last.inode

\* C13: a read of message.txt with a page index of at most 12 puts
\* "Hello World!" into the first 12 bytes of the page and leaves every later
\* byte as it was; with a larger index it leaves every byte as it was.
C13_ReadBytes ==
    IsRead =>
        /\ Len(last.page.buf) = Len(last.before.buf)
        /\ IF last.before.index <= 12
           THEN /\ \A k \in 1..12 :
                      last.page.buf[k] =
                          <<72, 101, 108, 108, 111, 32, 87, 111, 114, 108, 100, 33>>[k]
                /\ \A k \in 13..PageSize : last.page.buf[k] = last.before.buf[k]
           ELSE last.page.buf = last.before.buf

\* A read at the page index equal to the file size, into a page that held
\* other bytes, has copied the content.
C13_Witness ==
    /\ IsRead
    /\ last.before.index = 12
    /\ last.before.buf[1] # 72
    /\ last.before.buf[PageSize] # 0
    /\ last.page.buf[1] = 72

\* A thread's lookup has found its name in the catalog and is resolving the
\* identity of the entry found.
FoundByName(t) == th[t].op = "lookup" /\ th[t].pc = "iget_locked"

\* C14 as stated: for every catalog name, the entry the resolver selects for
\* the identity found under that name has the same name.
C14_RoundTripAllNames ==
    \A t \in Threads :
        FoundByName(t) =>
            \A e \in iget_entry(th[t].ino) : Entries[e].name = th[t].name

\* C14 amended: for "." and "message.txt" the entry the resolver selects for
\* the identity found under the name has the same name; for ".." it is the
\* entry ".", which has the same identity and kind.
C14_RoundTripButDotDot ==
    \A t \in Threads :
        FoundByName(t) =>
            \A e \in iget_entry(th[t].ino) :
                /\ Entries[e].ino = Entries[th[t].i + 1].ino
                /\ Entries[e].type = Entries[th[t].i + 1].type
                /\ IF th[t].name = <<46, 46, 0>>
                   THEN Entries[e].name = <<46, 0>>
                   ELSE Entries[e].name = th[t].name

\* Lookups of ".." and of "message.txt" have both found their entries and
\* are resolving the identities.
C14_Witness ==
    /\ \E t \in Threads : FoundByName(t) /\ th[t].name = <<46, 46, 0>>
    /\ \E t \in Threads : FoundByName(t) /\ th[t].name = S_message_txt

\* No object is populated twice, and no identity has two objects in the cache.
PopulatedOnceAndUnique ==
    /\ \A r \in 1..Len(inodes) : inodes[r].nfill <= 1
    /\ \A r, q \in 1..Len(inodes) : inodes[r].i_ino = inodes[q].i_ino => r = q

\* A thread's lookup of "." or ".." is resolving identity 1.
ResolvingDots(t) ==
    /\ FoundByName(t)
    /\ th[t].name \in {S_dot, S_dotdot}

\* C15: callers that resolve one identity at the same time populate its
\* object at most once, the cache never holds two objects for one identity,
\* and a lookup of "." or ".." hands back the object that is the mount root.
C15_OneObjectPerIdentity ==
    /\ []PopulatedOnceAndUnique
    /\ \A t \in Threads :
           ResolvingDots(t) ~> /\ IsLookup
                               /\ last.name \in {S_dot, S_dotdot}
                               /\ last.d_inode = sb.s_root

\* The permission digits grant no write access.
NoWrite(perm) == \A k \in 1..3 : (perm[k] \div 2) % 2 = 0

\* The bytes of a C string before its NUL.
Bytes(str) == SubSeq(str, 1, strlen(str))

\* C16: a populated object has the fields of the catalog entry of its
\* identity.  Identity 1 (a directory entry): mode directory 0555, size 512,
\* directory operations.  Identity 2 (the regular entry): mode regular 0444,
\* size 12, the length of "Hello World!", read-only file operations, and a
\* content pointer at the content of Entries[2] itself.
C16_PopulatedFields ==
    \A r \in 1..Len(inodes) :
        inodes[r].nfill > 0 =>
            /\ inodes[r].i_ino = 1 =>
                   /\ inodes[r].i_mode = [fmt |-> "S_IFDIR", perm |-> <<5, 5, 5>>]
                   /\ NoWrite(inodes[r].i_mode.perm)
                   /\ inodes[r].i_size = 512
                   /\ inodes[r].i_fop = "dir_fops"
                   /\ inodes[r].i_op = "dir_iops"
            /\ inodes[r].i_ino = 2 =>
                   /\ inodes[r].i_mode = [fmt |-> "S_IFREG", perm |-> <<4, 4, 4>>]
                   /\ NoWrite(inodes[r].i_mode.perm)
                   /\ inodes[r].i_size = 12
                   /\ Bytes(Entries[3].content) =
                          <<72, 101, 108, 108, 111, 32, 87, 111, 114, 108, 100, 33>>
                   /\ inodes[r].i_size = Len(Bytes(Entries[3].content))
                   /\ inodes[r].i_fop = "generic_ro_fops"
                   /\ inodes[r].a_ops = "reg_aops"
                   /\ inodes[r].i_private = 3
            /\ inodes[r].i_ino \in {1, 2}

\* Both the directory and the regular file have been populated.
C16_Witness ==
    /\ \E r \in 1..Len(inodes) : inodes[r].nfill > 0 /\ inodes[r].i_ino = 1
    /\ \E r \in 1..Len(inodes) : inodes[r].nfill > 0 /\ inodes[r].i_ino = 2

\* C17: over the calls of a scan, from whatever cursor it started and
\* however the sink refused, the entries the sink took are in strictly
\* increasing catalog order, so none came before a lower one and none twice.
C17_LogStrictlyIncreasing ==
    /\ \A j, k \in 1..Len(dir.log) : j < k => dir.log[j].idx < dir.log[k].idx
    /\ \A k \in 1..Len(dir.log) : dir.log[k] = dir_entry(dir.log[k].idx)
    /\ IsReaddir =>
           \A j, k \in 1..Len(last.emitted) :
               j < k => last.emitted[j].idx < last.emitted[k].idx

\* A scan from cursor 0 whose sink took entry 0 in one call, refused entry
\* 1, and took entry 2 in the next call.
C17_Witness ==
    /\ IsReaddir
    /\ dir.start = 0
    /\ LogIdx = <<0, 2>>
    /\ last.pos0 = 2
    /\ Len(last.emitted) = 1

\* C18: a lookup of a catalog name during which iget_locked could not
\* allocate got ERR_PTR(-ENOMEM) from the resolver and returns that error,
\* not a negative dentry, having called the resolver once, for the one
\* entry that matched.
C18_LookupPassesENOMEM ==
    (IsLookup /\ last.failed) =>
        /\ last.name \in CatalogNames
        /\ last.inode = -12
        /\ last.ret = -12
        /\ last.d_inode = NULL
        /\ last.igets = 1
        /\ Cardinality({i \in 1..3 : Entries[i].name = last.name}) = 1

\* A lookup of "message.txt" whose allocation failed has returned.
C18_Witness ==
    /\ IsLookup
    /\ last.failed
    /\ last.name = S_message_txt
    /\ IS_ERR(last.ret)

\* A thread is inside simplefs_iget or has just come back from it.
InIget(t) == th[t].pc \in {"iget_locked", "iget_fill", "iget_ret"}

\* C19: every identity handed to simplefs_iget, by the mount or by a lookup,
\* is 1 or 2, so the entry a new object is populated from is one the
\* function has assigned: Entries[0] for identity 1, Entries[2] for 2.
C19_IgetIdentityKnown ==
    \A t \in Threads :
        /\ InIget(t) => th[t].ino \in {1, 2}
        /\ th[t].pc = "iget_fill" =>
               iget_entry(th[t].ino) = (IF th[t].ino = 1 THEN {1} ELSE {3})

\* The mount has populated identity 1 and a lookup is about to populate a
\* new object for identity 2.
C19_Witness ==
    /\ \E r \in 1..Len(inodes) : inodes[r].i_ino = 1 /\ inodes[r].nfill = 1
    /\ \E t \in Threads :
           th[t].pc = "iget_fill" /\ th[t].op = "lookup" /\ th[t].ino = 2

\* The objects of the cache that a step added or changed.
Touched == {r \in 1..Len(inodes') : r > Len(inodes) \/ inodes'[r] # inodes[r]}

\* C20: a readdir call, a read call and a lookup of a name that is not in
\* the catalog leave the inode cache as it was (the lookup makes no resolve
\* at all); an object is added or changed only by a thread inside the mount,
\* for identity 1, or inside a lookup of a catalog name, for the identity of
\* the entry with that name.
C20_CacheFrame ==
    [][ /\ (last' # last /\ last'.op \in {"readdir", "read_folio", "readpage"})
               => inodes' = inodes
        /\ (last' # last /\ last'.op = "lookup" /\ last'.name \notin CatalogNames)
               => (inodes' = inodes /\ last'.igets = 0)
        /\ Len(inodes') >= Len(inodes)
        /\ \A r \in Touched :
               \E t \in Threads :
                   /\ th'[t].res = r
                   /\ inodes'[r].i_ino = th[t].ino
                   /\ \/ th[t].op = "fill_super" /\ inodes'[r].i_ino = 1
                      \/ /\ th[t].op = "lookup"
                         /\ th[t].name \in CatalogNames
                         /\ \E i \in 1..3 : /\ Entries[i].name = th[t].name
                                            /\ Entries[i].ino = inodes'[r].i_ino
      ]_vars

\* With both objects materialized, a lookup of a name that is not in the
\* catalog has returned.
C20_Witness ==
    /\ IsLookup
    /\ last.name \notin CatalogNames
    /\ Len(inodes) = 2
    /\ \A r \in 1..Len(inodes) : inodes[r].nfill = 1

====
